---- MODULE Spec2Model ----
(***************************************************************************)
(* Handler matching and dispatch of the bot framework.                     *)
(*                                                                         *)
(* Strings are sequences of one-character strings.  Python values that a   *)
(* handler returns or a filter evaluates to are tagged records: None,      *)
(* False, True, a dict, the (args, filter_result) tuple, a regex match, or *)
(* a raised exception.                                                     *)
(***************************************************************************)
EXTENDS Integers, Sequences, FiniteSets, TLC

VARIABLES
    \* one handler under construction and evaluation (Spec)
    pc,          \* "new" | "constructed" | "ctor_error" | "checked" | "bound"
    handler,     \* the constructed handler, NoHandler before construction
    ctorArgs,    \* the arguments of the constructor call that just returned
    update,      \* the update given to check_update
    result,      \* what check_update returned (or raised)
    context,     \* the CallbackContext after collect_additional_context
    registry,    \* the session registry (dispatcher.callback_manager)
    \* the dispatcher (DispatchSpec)
    handlers,    \* registered handlers, in registration order
    queue,       \* updates waiting in the ingress queue, each with its id
    dpc,         \* "idle" | "matching" | "binding" | "calling"
    cur,         \* the update being dispatched
    idx,         \* index of the handler being evaluated
    check,       \* check_update result of handlers[idx] for cur
    dctx,        \* the context bound for cur
    invoked,     \* handler indices whose callback was invoked for cur
    delivered,   \* ids of the updates taken from the queue, in order
    callbacks,   \* every callback invocation so far: id, handler, context
    errors,      \* errors reported to the host: id, exception
    running,     \* the dispatch loop is alive
    \* check_update calls in progress on one handler (ConcurrentSpec)
    workers      \* per dispatch cycle: its update and the frame of its call

vars == <<pc, handler, ctorArgs, update, result, context, registry, handlers, queue, dpc,
          cur, idx, check, dctx, invoked, delivered, callbacks, errors, running, workers>>

hvars == <<pc, handler, ctorArgs, update, result, context>>
dvars == <<handlers, queue, dpc, cur, idx, check, dctx, invoked, delivered,
           callbacks, errors, running>>

----------------------------------------------------------------------------
(* Bounds of the model *)

\* longest argument tail (characters after the command word) of a text
MaxTail == 4
\* longest inline query text
MaxQuery == 3
\* longest bot-command entity
MaxEntLen == 6
\* extra characters beyond the 32 allowed in a constructor's command token
MaxOver == 1
\* updates in the ingress queue
MaxQueue == 2

----------------------------------------------------------------------------
(* Python values *)

NoneV == [tag |-> "None"]
FalseV == [tag |-> "False"]
TrueV == [tag |-> "True"]
DictV(d) == [tag |-> "Dict", d |-> d]
TupleV(args, fr) == [tag |-> "Tuple", args |-> args, fr |-> fr]
MatchV(s, e) == [tag |-> "Match", start |-> s, end |-> e]
RaiseV(exc) == [tag |-> "Raise", exc |-> exc]

\* a dict is the set of its <<key, value>> items
EmptyDict == {}

\* bool(v) of a value a filter or a handler returns
Truthy(v) ==
    CASE v.tag = "None" -> FALSE
      [] v.tag = "False" -> FALSE
      [] v.tag = "True" -> TRUE
      [] v.tag = "Dict" -> v.d # {}
      [] v.tag = "Str" -> v.s # ""
      [] v.tag = "Tuple" -> TRUE
      [] v.tag = "Match" -> TRUE
      [] v.tag = "Payload" -> TRUE
      [] OTHER -> FALSE

----------------------------------------------------------------------------
(* Strings *)

\* str.lower() on the characters of the model
Lower(c) ==
    CASE c = "S" -> "s"
      [] c = "H" -> "h"
      [] c = "B" -> "b"
      [] OTHER -> c

LowerStr(s) == [i \in 1..Len(s) |-> Lower(s[i])]

IsSpace(c) == c \in {" ", "\n"}

Min(a, b) == IF a < b THEN a ELSE b

\* s[a:b] for 0 <= a, 0 <= b
Slice(s, a, b) == SubSeq(s, a + 1, Min(b, Len(s)))

\* str.split(): the maximal runs of non-whitespace characters, in order
RECURSIVE SplitWSFrom(_, _, _)
SplitWSFrom(s, i, word) ==
    IF i > Len(s)
    THEN IF word = <<>> THEN <<>> ELSE <<word>>
    ELSE IF IsSpace(s[i])
         THEN IF word = <<>>
              THEN SplitWSFrom(s, i + 1, <<>>)
              ELSE <<word>> \o SplitWSFrom(s, i + 1, <<>>)
         ELSE SplitWSFrom(s, i + 1, Append(word, s[i]))

SplitWS(s) == SplitWSFrom(s, 1, <<>>)

\* str.split(sep): the pieces between separators, empty pieces kept
RECURSIVE SplitSepFrom(_, _, _, _)
SplitSepFrom(s, sep, i, piece) ==
    IF i > Len(s)
    THEN <<piece>>
    ELSE IF s[i] = sep
         THEN <<piece>> \o SplitSepFrom(s, sep, i + 1, <<>>)
         ELSE SplitSepFrom(s, sep, i + 1, Append(piece, s[i]))

SplitSep(s, sep) == SplitSepFrom(s, sep, 1, <<>>)

\* lst[1:]
Rest(l) == IF l = <<>> THEN <<>> ELSE Tail(l)

\* n copies of character c
RECURSIVE Rep(_, _)
Rep(c, n) == IF n = 0 THEN <<>> ELSE <<c>> \o Rep(c, n - 1)

----------------------------------------------------------------------------
(* Updates *)

BotUsername == <<"B">>

MessageVariants == {"message", "edited_message", "channel_post", "edited_channel_post"}

BOT_COMMAND == "bot_command"

NoEnt == [type |-> "none", offset |-> 0, length |-> 0]
Ent(t, o, l) == [type |-> t, offset |-> o, length |-> l]

\* an update whose populated payload is one of the four message variants; fres
\* is what the caller's filter evaluates to on this update
Msg(variant, text, ent, fres) ==
    [variant |-> variant, text |-> text, ent |-> ent, fres |-> fres]
Inline(query) == [variant |-> "inline_query", query |-> query]
StrV(s) == [tag |-> "Str", s |-> s]
\* chat is the id of the chat of the callback query's message, 0 without one
Callback(data, chat) == [variant |-> "callback_query", data |-> data, chat |-> chat]
PollAnswer == [variant |-> "poll_answer"]
\* an update of a variant no handler of the model reads further
OtherVariants == {"chosen_inline_result", "shipping_query", "pre_checkout_query"}
Other(variant) == [variant |-> variant]
\* the payload object of an update
PayloadV(variant) == [tag |-> "Payload", variant |-> variant]

\* Update.effective_message is present
HasEffectiveMessage(u) == u.variant \in MessageVariants

\* Filters.update.messages
UpdateMessages(u) == u.variant \in {"message", "edited_message"}

----------------------------------------------------------------------------
(* CommandHandler *)

MaxCommandLen == 32

Digits == {"0", "1", "2", "3", "4", "5", "6", "7", "8", "9"}
LowerAZ == {"a", "b", "c", "d", "e", "f", "g", "h", "i", "j", "k", "l", "m",
            "n", "o", "p", "q", "r", "s", "t", "u", "v", "w", "x", "y", "z"}

\* the pattern without the upper limit of its quantifier
ReMatchCommand_NoLimit(comm) ==
    \E n \in 1..(Len(comm) + 1) :
        /\ n <= Len(comm)
        /\ \A i \in 1..n : comm[i] \in Digits \cup LowerAZ \cup {"_"}
        /\ \/ n = Len(comm)
           \/ n = Len(comm) - 1 /\ comm[Len(comm)] = "\n"

\* re.match(r'^[\da-z_]{1,32}$', comm): 1 to 32 characters of the class, then
\* '$', which holds at the end of the string and before a final newline
ReMatchCommand(comm) ==
    \E n \in 1..MaxCommandLen :
        /\ n <= Len(comm)
        /\ \A i \in 1..n : comm[i] \in Digits \cup LowerAZ \cup {"_"}
        /\ \/ n = Len(comm)
           \/ n = Len(comm) - 1 /\ comm[Len(comm)] = "\n"

\* the command argument of a constructor: one string or a list of strings
OneStr(s) == [tag |-> "Str", s |-> s]
ListOf(l) == [tag |-> "List", l |-> l]

LowerEach(l) == [i \in 1..Len(l) |-> LowerStr(l[i])]

InList(x, l) == \E i \in 1..Len(l) : l[i] = x

\* CommandHandler.__init__: the handler, or the ValueError it raises
CommandHandler_init(command, filters) ==
    LET cmds == IF command.tag = "Str"
                THEN <<LowerStr(command.s)>>
                ELSE LowerEach(command.l)
    IN  IF \E i \in 1..Len(cmds) : ~ReMatchCommand(cmds[i])
        THEN RaiseV("ValueError")
        ELSE [kind |-> "command", command |-> cmds, filters |-> filters]

\* self.filters(update) had the constructor stored the caller's filter alone
FiltersCall_CallerOnly(h, u) ==
    IF h.filters THEN u.fres
    ELSE IF ~UpdateMessages(u) THEN FalseV
    ELSE TrueV

\* self.filters(update): Filters.update.messages, and-ed with the caller's
\* filter when the constructor was given one
FiltersCall(h, u) ==
    IF ~UpdateMessages(u) THEN FalseV
    ELSE IF h.filters THEN u.fres
    ELSE TrueV

\* check_update comparing the bot name without lower-casing either side
CommandHandler_check_update_CaseSensitive(h, u) ==
    IF ~HasEffectiveMessage(u) THEN NoneV
    ELSE IF ~(u.ent # NoEnt /\ u.ent.type = BOT_COMMAND /\ u.ent.offset = 0)
    THEN NoneV
    ELSE LET command == SplitSep(Slice(u.text, 1, u.ent.length), "@")
                            \o <<BotUsername>>
             args == Rest(SplitWS(u.text))
         IN  IF ~(/\ InList(LowerStr(command[1]), h.command)
                  /\ command[2] = BotUsername)
             THEN NoneV
             ELSE LET filter_result == FiltersCall(h, u)
                  IN  IF Truthy(filter_result)
                      THEN TupleV(args, filter_result)
                      ELSE FalseV

\* CommandHandler.check_update
CommandHandler_check_update(h, u) ==
    IF ~HasEffectiveMessage(u) THEN NoneV
    ELSE IF ~(u.ent # NoEnt /\ u.ent.type = BOT_COMMAND /\ u.ent.offset = 0)
    THEN NoneV
    ELSE LET command == SplitSep(Slice(u.text, 1, u.ent.length), "@")
                            \o <<BotUsername>>
             args == Rest(SplitWS(u.text))
         IN  IF ~(/\ InList(LowerStr(command[1]), h.command)
                  /\ LowerStr(command[2]) = LowerStr(BotUsername))
             THEN NoneV
             ELSE LET filter_result == FiltersCall(h, u)
                  IN  IF Truthy(filter_result)
                      THEN TupleV(args, filter_result)
                      ELSE FalseV

----------------------------------------------------------------------------
(* CallbackContext *)

\* a fresh context carries the dispatcher's pass-through references
FreshContext == [a \in {"bot"} |-> "bot"]

DictKeys(d) == {p[1] : p \in d}
DictGet(d, k) == (CHOOSE p \in d : p[1] = k)[2]

CtxSet(ctx, k, v) == [a \in DOMAIN ctx \cup {k} |-> IF a = k THEN v ELSE ctx[a]]

\* CallbackContext.update(data)
CtxUpdate(ctx, d) ==
    [a \in DOMAIN ctx \cup DictKeys(d) |->
        IF a \in DictKeys(d) THEN DictGet(d, a) ELSE ctx[a]]

CtxV(ctx) == [tag |-> "Ctx", ctx |-> ctx]

\* collect_additional_context that leaves the filter's data out
CommandHandler_collect_additional_context_ArgsOnly(ctx, u, check_result) ==
    CtxV(CtxSet(ctx, "args", check_result.args))

\* CommandHandler.collect_additional_context
CommandHandler_collect_additional_context(ctx, u, check_result) ==
    LET withArgs == CtxSet(ctx, "args", check_result.args)
    IN  IF check_result.fr.tag = "Dict"
        THEN CtxV(CtxUpdate(withArgs, check_result.fr.d))
        ELSE CtxV(withArgs)

----------------------------------------------------------------------------
(* PrefixHandler *)

AsList(x) == IF x.tag = "Str" THEN <<LowerStr(x.s)>> ELSE x.l

\* [x.lower() + y.lower() for x in prefix for y in command]
RECURSIVE Cross(_, _, _, _)
Cross(prefix, command, i, j) ==
    IF i > Len(prefix) THEN <<>>
    ELSE IF j > Len(command) THEN Cross(prefix, command, i + 1, 1)
    ELSE <<LowerStr(prefix[i]) \o LowerStr(command[j])>>
             \o Cross(prefix, command, i, j + 1)

\* PrefixHandler.__init__
PrefixHandler_init(prefix, command, filters) ==
    [kind |-> "prefix",
     command |-> Cross(AsList(prefix), AsList(command), 1, 1),
     filters |-> filters]

\* check_update comparing the first token as typed, not lower-cased
PrefixHandler_check_update_AsTyped(h, u) ==
    IF ~HasEffectiveMessage(u) THEN NoneV
    ELSE IF u.text = <<>> THEN NoneV
    ELSE LET text_list == SplitWS(u.text)
         IN  IF text_list = <<>> THEN RaiseV("IndexError")
             ELSE IF ~InList(text_list[1], h.command) THEN NoneV
             ELSE LET filter_result == FiltersCall(h, u)
                  IN  IF Truthy(filter_result)
                      THEN TupleV(Rest(text_list), filter_result)
                      ELSE FalseV

\* PrefixHandler.check_update
PrefixHandler_check_update(h, u) ==
    IF ~HasEffectiveMessage(u) THEN NoneV
    ELSE IF u.text = <<>> THEN NoneV
    ELSE LET text_list == SplitWS(u.text)
         IN  IF text_list = <<>> THEN RaiseV("IndexError")
             ELSE IF ~InList(LowerStr(text_list[1]), h.command) THEN NoneV
             ELSE LET filter_result == FiltersCall(h, u)
                  IN  IF Truthy(filter_result)
                      THEN TupleV(Rest(text_list), filter_result)
                      ELSE FalseV

\* PrefixHandler.collect_additional_context
PrefixHandler_collect_additional_context(ctx, u, check_result) ==
    LET withArgs == CtxSet(ctx, "args", check_result.args)
    IN  IF check_result.fr.tag = "Dict"
        THEN CtxV(CtxUpdate(withArgs, check_result.fr.d))
        ELSE CtxV(withArgs)

----------------------------------------------------------------------------
(* InlineQueryHandler *)

\* a compiled pattern: an optional '^', a literal, an optional '$'
Pattern(caret, lit, dollar) ==
    [tag |-> "Pattern", caret |-> caret, lit |-> lit, dollar |-> dollar]

\* InlineQueryHandler.__init__ (a pattern string is compiled, None is kept)
InlineQueryHandler_init(pattern) == [kind |-> "inline", pattern |-> pattern]

\* the literal of the pattern is in s at 0-based position k
LitAt(p, s, k) ==
    /\ k + Len(p.lit) <= Len(s)
    /\ \A i \in 1..Len(p.lit) : s[k + i] = p.lit[i]

\* '$' holds at position k of s: at the end, or before a final newline
DollarAt(s, k) == k = Len(s) \/ (k = Len(s) - 1 /\ s[Len(s)] = "\n")

\* re.search in place of re.match: the pattern is tried at every position
ReSearch(p, s) ==
    IF \E k \in 0..Len(s) : LitAt(p, s, k) /\ (p.dollar => DollarAt(s, k + Len(p.lit)))
    THEN LET k == CHOOSE k \in 0..Len(s) :
                      /\ LitAt(p, s, k) /\ (p.dollar => DollarAt(s, k + Len(p.lit)))
                      /\ \A j \in 0..(k - 1) :
                             ~(LitAt(p, s, j) /\ (p.dollar => DollarAt(s, j + Len(p.lit))))
         IN  MatchV(k, k + Len(p.lit))
    ELSE NoneV

\* re.match(pattern, s): the pattern is tried at position 0 only
ReMatch(p, s) ==
    IF LitAt(p, s, 0) /\ (p.dollar => DollarAt(s, Len(p.lit)))
    THEN MatchV(0, Len(p.lit))
    ELSE NoneV

\* InlineQueryHandler.check_update
InlineQueryHandler_check_update(h, u) ==
    IF u.variant # "inline_query" THEN NoneV
    ELSE IF h.pattern # NoneV
    THEN IF u.query # <<>>
         THEN LET match == ReMatch(h.pattern, u.query)
              IN  IF match # NoneV THEN match ELSE NoneV
         ELSE NoneV
    ELSE TrueV

\* InlineQueryHandler.collect_additional_context
InlineQueryHandler_collect_additional_context(h, ctx, u, check_result) ==
    IF h.pattern # NoneV
    THEN CtxV(CtxSet(ctx, "matches", <<check_result>>))
    ELSE CtxV(ctx)

----------------------------------------------------------------------------
(* The session registry (dispatcher.callback_manager) *)

ActionV(a) == [tag |-> "Action", id |-> a]

\* peek_action(data): the action the token resolves to, None for an unknown
\* or expired token; the registry is not changed
PeekAction(reg, data) ==
    IF data \in DOMAIN reg.actions THEN ActionV(reg.actions[data]) ELSE NoneV

ItemV(model_data) == [tag |-> "Item", model_data |-> model_data]

\* lookup_chat_bound_callback(chat_id, data): the bound record, or None
LookupChatBoundCallback(reg, chat_id, data) ==
    IF <<chat_id, data>> \in DOMAIN reg.bound
    THEN ItemV(reg.bound[<<chat_id, data>>])
    ELSE NoneV

----------------------------------------------------------------------------
(* InlineActionHandler *)

\* get_action_id(action)
GetActionId(action) == ActionV(action)

\* InlineActionHandler.__init__
InlineActionHandler_init(action) == [kind |-> "action", action_id |-> GetActionId(action)]

\* check_update accepting every token the registry resolves
InlineActionHandler_check_update_AnyAction(h, u, reg) ==
    IF u.variant # "callback_query" THEN NoneV
    ELSE IF ~Truthy(u.data) THEN NoneV
    ELSE LET action == PeekAction(reg, u.data.s)
         IN  IF action # NoneV THEN TrueV ELSE FalseV

\* InlineActionHandler.check_update
InlineActionHandler_check_update(h, u, reg) ==
    IF u.variant # "callback_query" THEN NoneV
    ELSE IF ~Truthy(u.data) THEN NoneV
    ELSE LET action == PeekAction(reg, u.data.s)
         IN  IF action = h.action_id THEN TrueV ELSE FalseV

\* collect_additional_context reading model_data with a default of None
InlineActionHandler_collect_additional_context_Default(ctx, u, reg) ==
    IF u.chat = 0 THEN RaiseV("AttributeError")
    ELSE LET callback_item == LookupChatBoundCallback(reg, u.chat, u.data.s)
         IN  IF callback_item = NoneV THEN CtxV(CtxSet(ctx, "view_model", NoneV))
             ELSE CtxV(CtxSet(ctx, "view_model", callback_item.model_data))

\* InlineActionHandler.collect_additional_context
InlineActionHandler_collect_additional_context(ctx, u, reg) ==
    IF u.chat = 0 THEN RaiseV("AttributeError")
    ELSE LET callback_item == LookupChatBoundCallback(reg, u.chat, u.data.s)
         IN  IF callback_item = NoneV THEN RaiseV("AttributeError")
             ELSE CtxV(CtxSet(ctx, "view_model", callback_item.model_data))

----------------------------------------------------------------------------
(* PollAnswerHandler *)

PollAnswerHandler_init == [kind |-> "poll_answer"]

\* a check_update that takes every update that is not a message
PollAnswerHandler_check_update_NotMessage(h, u) ==
    IF u.variant \in MessageVariants THEN NoneV ELSE PayloadV(u.variant)

\* PollAnswerHandler.check_update: the poll answer of the update, if it has one
PollAnswerHandler_check_update(h, u) ==
    IF u.variant = "poll_answer" THEN PayloadV("poll_answer") ELSE NoneV

\* Handler.collect_additional_context of the base class adds nothing
Handler_collect_additional_context(ctx, u, check_result) == CtxV(ctx)

----------------------------------------------------------------------------
(* Handler: the method each handler class provides *)

check_update(h, u, reg) ==
    CASE h.kind = "command" -> CommandHandler_check_update(h, u)
      [] h.kind = "prefix" -> PrefixHandler_check_update(h, u)
      [] h.kind = "inline" -> InlineQueryHandler_check_update(h, u)
      [] h.kind = "action" -> InlineActionHandler_check_update(h, u, reg)
      [] h.kind = "poll_answer" -> PollAnswerHandler_check_update(h, u)

collect_additional_context(h, ctx, u, reg, check_result) ==
    CASE h.kind = "command" ->
            CommandHandler_collect_additional_context(ctx, u, check_result)
      [] h.kind = "prefix" ->
            PrefixHandler_collect_additional_context(ctx, u, check_result)
      [] h.kind = "inline" ->
            InlineQueryHandler_collect_additional_context(h, ctx, u, check_result)
      [] h.kind = "action" ->
            InlineActionHandler_collect_additional_context(ctx, u, reg)
      [] h.kind = "poll_answer" ->
            Handler_collect_additional_context(ctx, u, check_result)

\* a dispatcher that takes every result but None for a match
Accepted_NotNone(r) == r.tag \notin {"None", "Raise"}

\* the dispatcher hands an update to a handler when the check result is neither
\* None nor False
Accepted(r) == r.tag \notin {"None", "False", "Raise"}

----------------------------------------------------------------------------
(* The inputs *)

\* all sequences over S of length at most n
SeqsUpTo(S, n) == UNION {[1..k -> S] : k \in 0..n}

Leads == {<<>>, <<"/">>, <<"!">>, <<"#">>}
Names == {<<>>, <<"s">>, <<"S">>, <<"h">>}
Ats == {<<>>, <<"@", "b">>, <<"@", "B">>, <<"@", "o">>, <<"@">>,
        <<"@", "b", "@", "o">>}
Tails == {<<>>} \cup {<<" ">> \o t : t \in SeqsUpTo({" ", "x"}, MaxTail - 1)}

Texts == {l \o n \o a \o t : l \in Leads, n \in Names, a \in Ats, t \in Tails}

\* message.entities[0] for a text: no entity, or a bot command at offset 0 of
\* any length
EntitiesFor(text) ==
    {NoEnt} \cup {Ent(BOT_COMMAND, 0, l) : l \in 1..Min(Len(text) + 1, MaxEntLen)}

\* what a caller's filter can evaluate to
DataDicts == {{<<"matches", "m1">>}, {<<"matches", "m1">>, <<"lang", "en">>}}
FilterResults == {FalseV, NoneV, TrueV, DictV(EmptyDict)} \cup {DictV(d) : d \in DataDicts}

\* texts of every shape, as new messages the caller's filter accepts
TextFamily == UNION {{Msg("message", t, e, TrueV) : e \in EntitiesFor(t)} : t \in Texts}

\* the entity Telegram attaches to a text: the leading /command, if any
StdEnt(text) ==
    IF text # <<>> /\ text[1] = "/"
    THEN Ent(BOT_COMMAND, 0, Len(SplitWS(text)[1]))
    ELSE NoEnt

FilterTexts == {<<"/", "s">>, <<"/", "S", "@", "b", " ", "x">>, <<"/", "h">>,
                <<"!", "s">>, <<"#", "S", " ", "x", " ", "x">>, <<" ", " ">>}

\* command texts in every message variant, under every filter result
FilterFamily ==
    {Msg(v, t, StdEnt(t), fr) : v \in MessageVariants, t \in FilterTexts, fr \in FilterResults}

\* command texts whose first entity is a bot command further in, or an entity
\* of another type
OddEntityFamily ==
    {Msg("message", t, e, TrueV) :
        t \in FilterTexts, e \in {Ent(BOT_COMMAND, 1, 2), Ent("mention", 0, 2)}}

QueryChars == {"f", "o", "b"}
InlineUpdates == {Inline(q) : q \in SeqsUpTo(QueryChars, MaxQuery)}

Tokens == {"tok1", "tok2", "tok3"}
CallbackData == {NoneV, StrV("")} \cup {StrV(t) : t \in Tokens}
CallbackUpdates == {Callback(d, c) : d \in CallbackData, c \in 0..2}

\* one update of every variant but poll_answer
FalseUpdates ==
    {Msg(v, <<"x">>, NoEnt, TrueV) : v \in MessageVariants}
        \cup {Callback(NoneV, 1), Callback(NoneV, 0)}
        \cup {Other(v) : v \in OtherVariants}

Updates == TextFamily \cup FilterFamily \cup OddEntityFamily \cup InlineUpdates \cup CallbackUpdates
               \cup {PollAnswer} \cup FalseUpdates

NoUpdate == [variant |-> "none"]

\* the registry: tok1 and tok2 resolve to actions, tok3 is unknown or expired;
\* the record bound to tok1 in chat 2 is gone
Registries ==
    {[actions |-> [t \in {"tok1", "tok2"} |-> IF t = "tok1" THEN "A" ELSE "B"],
      bound |-> [k \in {<<1, "tok1">>, <<1, "tok2">>, <<2, "tok2">>} |->
                    <<"vm", k[1], k[2]>>]]}

\* command tokens given to constructors
CommandTokens ==
    {Rep("s", n) : n \in {0, 1, MaxCommandLen}}
        \cup {Rep("s", MaxCommandLen + k) : k \in 1..MaxOver}
        \cup {<<"S">>, <<"h">>, <<"s", "1", "_">>, <<"a", "b", " ", "c", "d">>,
              <<"s", "\n">>, <<"s", "\n", "\n">>, <<"\n">>, <<"!", "s">>, <<"s", "@", "b">>,
              <<"/", "s">>}
CommandArgs ==
    {OneStr(t) : t \in CommandTokens}
        \cup {ListOf(l) : l \in {<<>>, <<<<"S">>, <<"h">>>>, <<<<"s">>, <<"a", " ">>>>,
                                 <<<<>>, <<"s">>>>}}

PrefixArgs == {OneStr(<<"!">>), ListOf(<<<<"!">>, <<"#">>>>)}
PrefixCommandArgs == {OneStr(<<"s">>), ListOf(<<<<"S">>, <<"h">>>>)}

Patterns == {NoneV, Pattern(TRUE, <<"f", "o">>, FALSE), Pattern(FALSE, <<"f", "o">>, FALSE),
             Pattern(TRUE, <<"f", "o">>, TRUE), Pattern(FALSE, <<>>, FALSE)}

Actions == {"A", "B"}

NoHandler == [kind |-> "none"]
NoArgs == [kind |-> "none"]

\* no dispatch cycle is evaluating a handler
NoWorkers == <<>>

----------------------------------------------------------------------------
(* One handler: construction, check_update, collect_additional_context *)

DispatcherIdle ==
    /\ handlers = <<>>
    /\ queue = <<>>
    /\ dpc = "idle"
    /\ cur = [id |-> 0, u |-> NoUpdate]
    /\ idx = 0
    /\ check = NoneV
    /\ dctx = CtxV(FreshContext)
    /\ invoked = <<>>
    /\ delivered = <<>>
    /\ callbacks = <<>>
    /\ errors = <<>>
    /\ running = TRUE

Init ==
    /\ pc = "new"
    /\ handler = NoHandler
    /\ ctorArgs = NoArgs
    /\ update = NoUpdate
    /\ result = NoneV
    /\ context = CtxV(FreshContext)
    /\ registry \in Registries
    /\ DispatcherIdle
    /\ workers = NoWorkers

\* a constructor returned h, or raised
Constructed(h, args) ==
    /\ ctorArgs' = args
    /\ IF h.tag = "Raise"
       THEN pc' = "ctor_error" /\ handler' = NoHandler
       ELSE pc' = "constructed" /\ handler' = h.h
    /\ UNCHANGED <<update, result, context, registry>>
    /\ UNCHANGED <<dvars, workers>>

HandlerV(h) == [tag |-> "Handler", h |-> h]

\* the value of a constructor call: the handler or the exception
New(r) == IF "tag" \in DOMAIN r THEN r ELSE HandlerV(r)

NewCommandHandler ==
    /\ pc = "new"
    /\ \E c \in CommandArgs, f \in BOOLEAN :
        Constructed(New(CommandHandler_init(c, f)),
                    [kind |-> "command", command |-> c, filters |-> f])

NewPrefixHandler ==
    /\ pc = "new"
    /\ \E p \in PrefixArgs, c \in PrefixCommandArgs, f \in BOOLEAN :
        Constructed(New(PrefixHandler_init(p, c, f)),
                    [kind |-> "prefix", prefix |-> p, command |-> c, filters |-> f])

NewInlineQueryHandler ==
    /\ pc = "new"
    /\ \E p \in Patterns :
        Constructed(New(InlineQueryHandler_init(p)), [kind |-> "inline", pattern |-> p])

NewInlineActionHandler ==
    /\ pc = "new"
    /\ \E a \in Actions :
        Constructed(New(InlineActionHandler_init(a)), [kind |-> "action", action |-> a])

NewPollAnswerHandler ==
    /\ pc = "new"
    /\ Constructed(New(PollAnswerHandler_init), [kind |-> "poll_answer"])

CheckUpdate ==
    /\ pc = "constructed"
    /\ \E u \in Updates :
        /\ update' = u
        /\ result' = check_update(handler, u, registry)
        /\ pc' = "checked"
        /\ ctorArgs' = NoArgs
        /\ UNCHANGED <<handler, context, registry>>
        /\ UNCHANGED <<dvars, workers>>

CollectAdditionalContext ==
    /\ pc = "checked"
    /\ Accepted(result)
    /\ context' = collect_additional_context(handler, FreshContext, update, registry, result)
    /\ pc' = "bound"
    /\ UNCHANGED <<handler, ctorArgs, update, result, registry>>
    /\ UNCHANGED <<dvars, workers>>

Next ==
    \/ NewCommandHandler
    \/ NewPrefixHandler
    \/ NewInlineQueryHandler
    \/ NewInlineActionHandler
    \/ NewPollAnswerHandler
    \/ CheckUpdate
    \/ CollectAdditionalContext

Spec == Init /\ [][Next]_vars

----------------------------------------------------------------------------
(* The dispatcher *)

hCf == CommandHandler_init(OneStr(<<"s">>), TRUE)
hC == CommandHandler_init(ListOf(<<<<"S">>, <<"h">>>>), FALSE)
hP == PrefixHandler_init(ListOf(<<<<"!">>, <<"#">>>>), OneStr(<<"s">>), TRUE)
hI == InlineQueryHandler_init(Pattern(TRUE, <<"f", "o">>, FALSE))
hI0 == InlineQueryHandler_init(NoneV)
hA == InlineActionHandler_init("A")
hB == InlineActionHandler_init("B")
hPA == PollAnswerHandler_init

\* the handlers add_handler registered, in registration order
HandlerLists ==
    {<<>>, <<hC>>, <<hA>>, <<hC, hCf>>, <<hCf, hC>>, <<hP, hC>>, <<hP, hP>>, <<hI, hI0>>,
     <<hI0, hI>>, <<hB, hA>>, <<hA, hA>>, <<hCf, hC, hC>>, <<hP, hA, hI, hCf>>,
     <<hPA>>, <<hI0, hPA>>}

DispatchUpdates ==
    {Msg("message", <<"/", "s">>, Ent(BOT_COMMAND, 0, 2), TrueV),
     Msg("message", <<"/", "s", " ", "x">>, Ent(BOT_COMMAND, 0, 2), FalseV),
     Msg("edited_message", <<"/", "S", "@", "b", " ", "x">>, Ent(BOT_COMMAND, 0, 4),
         DictV({<<"matches", "m1">>})),
     Msg("message", <<"!", "s", " ", "x", " ", "x">>, NoEnt,
         DictV({<<"matches", "m1">>, <<"lang", "en">>})),
     Msg("message", <<"#", "s">>, NoEnt, DictV(EmptyDict)),
     Msg("message", <<" ", " ">>, NoEnt, TrueV),
     Inline(<<"f", "o", "b">>),
     Inline(<<>>),
     Callback(StrV("tok1"), 1),
     Callback(StrV("tok1"), 2),
     Callback(StrV("tok1"), 0),
     Callback(StrV("tok3"), 1),
     PollAnswer}

\* the updates of the ingress queue, numbered in the order of delivery
Numbered(us) == [k \in 1..Len(us) |-> [id |-> k, u |-> us[k]]]
Queues ==
    {Numbered(us) : us \in UNION {[1..n -> DispatchUpdates] : n \in 1..MaxQueue}}
        \cup {Numbered(<<u, PollAnswer>>) : u \in FalseUpdates}

NoItem == [id |-> 0, u |-> NoUpdate]

DInit ==
    /\ pc = "new"
    /\ handler = NoHandler
    /\ ctorArgs = NoArgs
    /\ update = NoUpdate
    /\ result = NoneV
    /\ context = CtxV(FreshContext)
    /\ registry \in Registries
    /\ handlers \in HandlerLists
    /\ queue \in Queues
    /\ dpc = "idle"
    /\ cur = NoItem
    /\ idx = 0
    /\ check = NoneV
    /\ dctx = CtxV(FreshContext)
    /\ invoked = <<>>
    /\ delivered = <<>>
    /\ callbacks = <<>>
    /\ errors = <<>>
    /\ running = TRUE
    /\ workers = NoWorkers

ErrorV(item, exc, at) == [id |-> item.id, exc |-> exc, at |-> at]

\* requeueing an update whose callback failed, kept by the mutant below
QueueAfterFailure_Requeue(q, item) == Append(q, item)

\* the ingress queue after the callback for item raised: the update counts as
\* handled and is not put back
QueueAfterFailure(q, item) == q

\* a dispatch loop that dies with the exception of a callback
LoopAfterFailure_Stops(r) == FALSE

\* the dispatch loop after the callback raised: the exception is contained
LoopAfterFailure(r) == r

\* the dispatch loop takes the next update from the ingress queue
Take ==
    /\ running
    /\ dpc = "idle"
    /\ queue # <<>>
    /\ cur' = Head(queue)
    /\ queue' = Tail(queue)
    /\ delivered' = Append(delivered, Head(queue))
    /\ idx' = 1
    /\ check' = NoneV
    /\ dctx' = CtxV(FreshContext)
    /\ invoked' = <<>>
    /\ dpc' = "matching"
    /\ UNCHANGED <<handlers, callbacks, errors, running, registry>>
    /\ UNCHANGED <<hvars, workers>>

\* process(update): the next handler in registration order is asked
Match ==
    /\ dpc = "matching"
    /\ idx <= Len(handlers)
    /\ LET r == check_update(handlers[idx], cur.u, registry)
       IN  IF r.tag = "Raise"
           THEN /\ errors' = Append(errors, ErrorV(cur, r.exc, "check_update"))
                /\ dpc' = "idle"
                /\ UNCHANGED <<idx, check>>
           ELSE IF Accepted(r)
           THEN /\ check' = r
                /\ dpc' = "binding"
                /\ UNCHANGED <<idx, errors>>
           ELSE /\ idx' = idx + 1
                /\ UNCHANGED <<check, dpc, errors>>
    /\ UNCHANGED <<handlers, queue, cur, dctx, invoked, delivered, callbacks, running,
                   registry>>
    /\ UNCHANGED <<hvars, workers>>

\* process(update): no handler matched, the update is dropped
Drop ==
    /\ dpc = "matching"
    /\ idx > Len(handlers)
    /\ dpc' = "idle"
    /\ UNCHANGED <<handlers, queue, cur, idx, check, dctx, invoked, delivered, callbacks,
                   errors, running, registry>>
    /\ UNCHANGED <<hvars, workers>>

\* process(update): a fresh context is bound for the handler that matched
Bind ==
    /\ dpc = "binding"
    /\ LET b == collect_additional_context(handlers[idx], FreshContext, cur.u, registry, check)
       IN  IF b.tag = "Raise"
           THEN /\ errors' = Append(errors, ErrorV(cur, b.exc, "collect_additional_context"))
                /\ dpc' = "idle"
                /\ UNCHANGED dctx
           ELSE /\ dctx' = b
                /\ dpc' = "calling"
                /\ UNCHANGED errors
    /\ UNCHANGED <<handlers, queue, cur, idx, check, invoked, delivered, callbacks, running,
                   registry>>
    /\ UNCHANGED <<hvars, workers>>

CallV(item, i, ctx, raised) == [id |-> item.id, h |-> i, ctx |-> ctx, raised |-> raised]

\* process(update): the user callback runs and returns
CallbackReturns ==
    /\ dpc = "calling"
    /\ callbacks' = Append(callbacks, CallV(cur, idx, dctx.ctx, FALSE))
    /\ invoked' = Append(invoked, idx)
    /\ dpc' = "idle"
    /\ UNCHANGED <<handlers, queue, cur, idx, check, dctx, delivered, errors, running,
                   registry>>
    /\ UNCHANGED <<hvars, workers>>

\* process(update): the user callback runs and raises; the exception is caught
\* and logged
CallbackRaises ==
    /\ dpc = "calling"
    /\ callbacks' = Append(callbacks, CallV(cur, idx, dctx.ctx, TRUE))
    /\ invoked' = Append(invoked, idx)
    /\ errors' = Append(errors, ErrorV(cur, "callback", "callback"))
    /\ queue' = QueueAfterFailure(queue, cur)
    /\ running' = LoopAfterFailure(running)
    /\ dpc' = "idle"
    /\ UNCHANGED <<handlers, cur, idx, check, dctx, delivered, registry>>
    /\ UNCHANGED <<hvars, workers>>

DNext ==
    \/ Take
    \/ Match
    \/ Drop
    \/ Bind
    \/ CallbackReturns
    \/ CallbackRaises

DispatchSpec == DInit /\ [][DNext]_vars

\* the dispatch loop is one thread that keeps running while it has a step
FairDispatchSpec == DispatchSpec /\ WF_vars(DNext)

----------------------------------------------------------------------------
(* Dispatch cycles evaluating one handler at the same time *)

\* dispatch cycles the host runs in parallel
NumWorkers == 2
Workers == 1..NumWorkers

\* the frame of a check_update call: where it stands, its local variables and
\* what it returned; command_list is the local command once it holds the split
Frame(at) ==
    [pc |-> at, command |-> <<>>, command_list |-> <<>>, args |-> <<>>,
     text_list |-> <<>>, filter_result |-> NoneV, match |-> NoneV, action |-> NoneV,
     ret |-> NoneV]

\* everything a statement of check_update can reach: the handler, the update,
\* the registry and the frame of its own call
World(h, u, reg, f) == [h |-> h, u |-> u, reg |-> reg, f |-> f]
Goto(w, at) == [w EXCEPT !.f.pc = at]
Return(w, v) == [w EXCEPT !.f.pc = "return", !.f.ret = v]

\* an attribute set on an object
SetAttr(obj, name, v) == [x \in DOMAIN obj \cup {name} |-> IF x = name THEN v ELSE obj[x]]

\* check_update keeping the argument list on the handler between statements
CommandHandler_check_update_step_ArgsOnSelf(h, u, reg, f) ==
    LET w == World(h, u, reg, f)
    IN  CASE f.pc = "start" ->
                IF ~HasEffectiveMessage(u) THEN Return(w, NoneV)
                ELSE IF ~(u.ent # NoEnt /\ u.ent.type = BOT_COMMAND /\ u.ent.offset = 0)
                THEN Return(w, NoneV)
                ELSE Goto(w, "l101")
          [] f.pc = "l101" ->
                [w EXCEPT !.f.command = Slice(u.text, 1, u.ent.length), !.f.pc = "l102"]
          [] f.pc = "l102" ->
                [w EXCEPT !.h = SetAttr(h, "args", Rest(SplitWS(u.text))), !.f.pc = "l103"]
          [] f.pc = "l103" ->
                [w EXCEPT !.f.command_list = SplitSep(f.command, "@"), !.f.pc = "l104"]
          [] f.pc = "l104" ->
                [w EXCEPT !.f.command_list = Append(f.command_list, BotUsername),
                          !.f.pc = "l106"]
          [] f.pc = "l106" ->
                IF ~(/\ InList(LowerStr(f.command_list[1]), h.command)
                     /\ LowerStr(f.command_list[2]) = LowerStr(BotUsername))
                THEN Return(w, NoneV)
                ELSE Goto(w, "l110")
          [] f.pc = "l110" ->
                [w EXCEPT !.f.filter_result = FiltersCall(h, u), !.f.pc = "l111"]
          [] f.pc = "l111" ->
                IF Truthy(f.filter_result)
                THEN Return(w, TupleV(h.args, f.filter_result))
                ELSE Return(w, FalseV)

\* CommandHandler.check_update, one statement at a time
CommandHandler_check_update_step(h, u, reg, f) ==
    LET w == World(h, u, reg, f)
    IN  CASE f.pc = "start" ->
                IF ~HasEffectiveMessage(u) THEN Return(w, NoneV)
                ELSE IF ~(u.ent # NoEnt /\ u.ent.type = BOT_COMMAND /\ u.ent.offset = 0)
                THEN Return(w, NoneV)
                ELSE Goto(w, "l101")
          [] f.pc = "l101" ->
                [w EXCEPT !.f.command = Slice(u.text, 1, u.ent.length), !.f.pc = "l102"]
          [] f.pc = "l102" ->
                [w EXCEPT !.f.args = Rest(SplitWS(u.text)), !.f.pc = "l103"]
          [] f.pc = "l103" ->
                [w EXCEPT !.f.command_list = SplitSep(f.command, "@"), !.f.pc = "l104"]
          [] f.pc = "l104" ->
                [w EXCEPT !.f.command_list = Append(f.command_list, BotUsername),
                          !.f.pc = "l106"]
          [] f.pc = "l106" ->
                IF ~(/\ InList(LowerStr(f.command_list[1]), h.command)
                     /\ LowerStr(f.command_list[2]) = LowerStr(BotUsername))
                THEN Return(w, NoneV)
                ELSE Goto(w, "l110")
          [] f.pc = "l110" ->
                [w EXCEPT !.f.filter_result = FiltersCall(h, u), !.f.pc = "l111"]
          [] f.pc = "l111" ->
                IF Truthy(f.filter_result)
                THEN Return(w, TupleV(f.args, f.filter_result))
                ELSE Return(w, FalseV)

\* PrefixHandler.check_update, one statement at a time
PrefixHandler_check_update_step(h, u, reg, f) ==
    LET w == World(h, u, reg, f)
    IN  CASE f.pc = "start" ->
                IF ~HasEffectiveMessage(u) THEN Return(w, NoneV)
                ELSE IF u.text = <<>> THEN Return(w, NoneV)
                ELSE Goto(w, "l210")
          [] f.pc = "l210" ->
                [w EXCEPT !.f.text_list = SplitWS(u.text), !.f.pc = "l211"]
          [] f.pc = "l211" ->
                IF f.text_list = <<>> THEN Return(w, RaiseV("IndexError"))
                ELSE IF ~InList(LowerStr(f.text_list[1]), h.command) THEN Return(w, NoneV)
                ELSE Goto(w, "l213")
          [] f.pc = "l213" ->
                [w EXCEPT !.f.filter_result = FiltersCall(h, u), !.f.pc = "l214"]
          [] f.pc = "l214" ->
                IF Truthy(f.filter_result)
                THEN Return(w, TupleV(Rest(f.text_list), f.filter_result))
                ELSE Return(w, FalseV)

\* InlineQueryHandler.check_update, one statement at a time
InlineQueryHandler_check_update_step(h, u, reg, f) ==
    LET w == World(h, u, reg, f)
    IN  CASE f.pc = "start" ->
                IF u.variant # "inline_query" THEN Return(w, NoneV)
                ELSE IF h.pattern = NoneV THEN Return(w, TrueV)
                ELSE IF u.query = <<>> THEN Return(w, NoneV)
                ELSE Goto(w, "l78")
          [] f.pc = "l78" ->
                [w EXCEPT !.f.match = ReMatch(h.pattern, u.query), !.f.pc = "l79"]
          [] f.pc = "l79" ->
                IF f.match # NoneV THEN Return(w, f.match) ELSE Return(w, NoneV)

\* InlineActionHandler.check_update, one statement at a time
InlineActionHandler_check_update_step(h, u, reg, f) ==
    LET w == World(h, u, reg, f)
    IN  CASE f.pc = "start" ->
                IF u.variant # "callback_query" THEN Return(w, NoneV)
                ELSE IF ~Truthy(u.data) THEN Return(w, NoneV)
                ELSE Goto(w, "l110")
          [] f.pc = "l110" ->
                [w EXCEPT !.f.action = PeekAction(reg, u.data.s), !.f.pc = "l112"]
          [] f.pc = "l112" ->
                IF f.action = h.action_id THEN Return(w, TrueV) ELSE Return(w, FalseV)

\* the next statement of the check_update of the handler's class
check_update_step(h, u, reg, f) ==
    CASE h.kind = "command" -> CommandHandler_check_update_step(h, u, reg, f)
      [] h.kind = "prefix" -> PrefixHandler_check_update_step(h, u, reg, f)
      [] h.kind = "inline" -> InlineQueryHandler_check_update_step(h, u, reg, f)
      [] h.kind = "action" -> InlineActionHandler_check_update_step(h, u, reg, f)

\* the handler the dispatch cycles share
SharedHandlers == {hCf, hC, hP, hI, hI0, hA}

\* the updates the dispatch cycles carry
ConcurrentUpdates ==
    {Msg("message", <<"/", "s", " ", "x">>, Ent(BOT_COMMAND, 0, 2), TrueV),
     Msg("edited_message", <<"/", "S", "@", "b", " ", "x", " ", "x">>, Ent(BOT_COMMAND, 0, 4),
         DictV({<<"matches", "m1">>})),
     Msg("message", <<"/", "h", "@", "o">>, Ent(BOT_COMMAND, 0, 4), TrueV),
     Msg("message", <<"!", "s", " ", "x", " ", "x">>, NoEnt, TrueV),
     Msg("message", <<"#", "S">>, NoEnt, FalseV),
     Inline(<<"f", "o", "b">>),
     Inline(<<"b", "f", "o">>),
     Callback(StrV("tok1"), 1),
     Callback(StrV("tok3"), 1)}

Idle(w) == workers[w].f.pc \in {"idle", "return"}

CInit ==
    /\ pc = "constructed"
    /\ handler \in SharedHandlers
    /\ ctorArgs = NoArgs
    /\ update = NoUpdate
    /\ result = NoneV
    /\ context = CtxV(FreshContext)
    /\ registry \in Registries
    /\ DispatcherIdle
    /\ workers = [w \in Workers |-> [u |-> NoUpdate, f |-> Frame("idle")]]

\* a dispatch cycle hands its update to the handler; no other cycle that is
\* in a call holds the same update
Begin(w) ==
    /\ Idle(w)
    /\ \E u \in ConcurrentUpdates :
        /\ \A v \in Workers \ {w} : Idle(v) \/ workers[v].u # u
        /\ workers' = [workers EXCEPT ![w] = [u |-> u, f |-> Frame("start")]]
    /\ UNCHANGED <<hvars, registry, dvars>>

\* the call of a dispatch cycle executes its next statement
Step(w) ==
    /\ ~Idle(w)
    /\ LET r == check_update_step(handler, workers[w].u, registry, workers[w].f)
       IN  /\ handler' = r.h
           /\ registry' = r.reg
           /\ workers' = [workers EXCEPT ![w] = [u |-> r.u, f |-> r.f]]
    /\ UNCHANGED <<pc, ctorArgs, update, result, context, dvars>>

CNext == \E w \in Workers : Begin(w) \/ Step(w)

ConcurrentSpec == CInit /\ [][CNext]_vars

----------------------------------------------------------------------------
(* Properties of one handler *)

Checked == pc \in {"checked", "bound"}

\* position of the first '@' of s, 0 when s has none
FirstAt(s) ==
    IF \E i \in 1..Len(s) : s[i] = "@"
    THEN CHOOSE i \in 1..Len(s) : s[i] = "@" /\ \A j \in 1..(i - 1) : s[j] # "@"
    ELSE 0

\* the text of the entity after its leading '/'
EntityCommand(u) == SubSeq(u.text, 2, Min(u.ent.length, Len(u.text)))

\* the command name: the text between '/' and the first '@' or the entity end
CommandName(u) ==
    LET c == EntityCommand(u)
    IN  IF FirstAt(c) = 0 THEN c ELSE SubSeq(c, 1, FirstAt(c) - 1)

HasBotPart(u) == FirstAt(EntityCommand(u)) # 0

\* the part after '@': what follows the first '@', up to the next '@' or the
\* entity end (the second piece of the split on '@' of section 4.2, step 4)
BotPart(u) ==
    LET c == EntityCommand(u)
        after == SubSeq(c, FirstAt(c) + 1, Len(c))
    IN  IF FirstAt(after) = 0 THEN after ELSE SubSeq(after, 1, FirstAt(after) - 1)

EqualIgnoringCase(a, b) == LowerStr(a) = LowerStr(b)

\* the entity is a bot command at offset 0, the command name is in the
\* handler's set and the bot part is absent or names this bot
CommandShape(h, u) ==
    /\ HasEffectiveMessage(u)
    /\ u.ent.type = BOT_COMMAND
    /\ u.ent.offset = 0
    /\ \E i \in 1..Len(h.command) : EqualIgnoringCase(h.command[i], CommandName(u))
    /\ HasBotPart(u) => EqualIgnoringCase(BotPart(u), BotUsername)

FiltersAccept(h, u) == Truthy(FiltersCall(h, u))

CommandS == <<<<"s">>>>

\* C3: CommandHandler.check_update returns Matched, with args the tokens of
\* the text after the first one, exactly when the first entity is a bot command
\* at offset 0, the command name is in the command set ignoring case, the part
\* after '@' is absent or equals the bot's username ignoring case, and the
\* filters accept; with commands {s} and bot B: '/s' and '/s@b' give args [],
\* '/s x x' gives [x, x], '/s@o' gives NoMatch
C3_CommandMatch ==
    (Checked /\ handler.kind = "command") =>
        /\ result.tag = "Tuple" <=> (CommandShape(handler, update) /\ FiltersAccept(handler, update))
        /\ result.tag = "Tuple" => result.args = Rest(SplitWS(update.text))
        /\ (handler.command = CommandS /\ update.variant = "message" /\ update.fres = TrueV) =>
            /\ (update.text = <<"/", "s">> /\ update.ent = Ent(BOT_COMMAND, 0, 2))
                   => result = TupleV(<<>>, TrueV)
            /\ (update.text = <<"/", "s", "@", "b">> /\ update.ent = Ent(BOT_COMMAND, 0, 4))
                   => result = TupleV(<<>>, TrueV)
            /\ (update.text = <<"/", "s", " ", "x", " ", "x">> /\ update.ent = Ent(BOT_COMMAND, 0, 2))
                   => result = TupleV(<<<<"x">>, <<"x">>>>, TrueV)
            /\ (update.text = <<"/", "s", "@", "o">> /\ update.ent = Ent(BOT_COMMAND, 0, 4))
                   => result = NoneV

\* a command addressed as /S@b with two arguments matched
C3_Witness ==
    /\ pc = "checked"
    /\ handler.kind = "command"
    /\ HasEffectiveMessage(update)
    /\ update.text = <<"/", "S", "@", "b", " ", "x", " ", "x">>
    /\ update.ent = Ent(BOT_COMMAND, 0, 4)
    /\ result = TupleV(<<<<"x">>, <<"x">>>>, TrueV)

\* the first whitespace-delimited token of a text that has one
HasToken(s) == \E i \in 1..Len(s) : ~IsSpace(s[i])
FirstToken(s) ==
    LET a == CHOOSE i \in 1..Len(s) : ~IsSpace(s[i]) /\ \A j \in 1..(i - 1) : IsSpace(s[j])
        b == CHOOSE i \in a..Len(s) :
                 /\ \A j \in a..i : ~IsSpace(s[j])
                 /\ i = Len(s) \/ IsSpace(s[i + 1])
    IN  SubSeq(s, a, b)

\* the message has text whose first token, lower-cased, is in the handler's set
PrefixShape(h, u) ==
    /\ HasEffectiveMessage(u)
    /\ u.text # <<>>
    /\ HasToken(u.text)
    /\ \E i \in 1..Len(h.command) : h.command[i] = LowerStr(FirstToken(u.text))

Shape(h, u) == IF h.kind = "command" THEN CommandShape(h, u) ELSE PrefixShape(h, u)

\* None when the shape does not match, False when it does and the filters are
\* falsy, the (args, filter result) tuple when it does and they are truthy
ThreeWay(h, u, r) ==
    /\ r.tag \in {"None", "False", "Tuple"}
    /\ r = NoneV <=> ~Shape(h, u)
    /\ r = FalseV <=> (Shape(h, u) /\ ~FiltersAccept(h, u))
    /\ r.tag = "Tuple" <=> (Shape(h, u) /\ FiltersAccept(h, u))
    /\ r.tag = "Tuple" => r.fr = FiltersCall(h, u)

\* C4: check_update of CommandHandler and PrefixHandler yields one of three
\* results: NoMatch (None) when the update shape, command name or bot name does
\* not match, Rejected (False) when the command matched and the filters were
\* falsy, Matched (args, filter result) when the command matched and the
\* filters were truthy
C4_ThreeWay ==
    (Checked /\ handler.kind \in {"command", "prefix"}) => ThreeWay(handler, update, result)

\* a message text made of whitespace only
BlankText(u) == HasEffectiveMessage(u) /\ u.text # <<>> /\ ~HasToken(u.text)

\* the three-way result on every update but a blank text given to a PrefixHandler
ThreeWayExceptBlankText ==
    (Checked /\ handler.kind \in {"command", "prefix"}
        /\ ~(handler.kind = "prefix" /\ BlankText(update)))
        => ThreeWay(handler, update, result)

\* a token is a command name: 1 to 32 characters, each a letter, a digit or
\* '_' in either case; as '$' does, a single newline after them is let through
ValidCommand(t) ==
    LET core == IF t # <<>> /\ t[Len(t)] = "\n" THEN SubSeq(t, 1, Len(t) - 1) ELSE t
    IN  /\ Len(core) >= 1
        /\ Len(core) <= MaxCommandLen
        /\ \A i \in 1..Len(core) : Lower(core[i]) \in LowerAZ \cup Digits \cup {"_"}

\* the strings of a constructor argument
Elements(arg) == IF arg.tag = "Str" THEN {arg.s} ELSE {arg.l[i] : i \in 1..Len(arg.l)}

PrefixS == <<<<"!", "s">>, <<"#", "s">>>>

\* C7: a PrefixHandler holds the set of lower(p) + lower(c) for its prefixes p
\* and commands c; on a message with non-empty text the command shape matches
\* exactly when the lower-cased first token is in that set, whatever the
\* entities and with no '@botname' part, and args are the remaining tokens;
\* prefixes {!, #} with command s match '!s' and '#s', not 's' or '!h'
C7_PrefixMatch ==
    /\ (pc = "constructed" /\ ctorArgs.kind = "prefix") =>
          {handler.command[i] : i \in 1..Len(handler.command)}
              = {LowerStr(p) \o LowerStr(c) :
                    p \in Elements(ctorArgs.prefix), c \in Elements(ctorArgs.command)}
    /\ (Checked /\ handler.kind = "prefix" /\ HasEffectiveMessage(update) /\ update.text # <<>>) =>
        /\ result.tag \in {"False", "Tuple"} <=>
              (/\ HasToken(update.text)
               /\ \E i \in 1..Len(handler.command) :
                      handler.command[i] = LowerStr(FirstToken(update.text)))
        /\ result.tag = "Tuple" => result.args = Rest(SplitWS(update.text))
        /\ (handler.command = PrefixS /\ update.variant = "message" /\ update.fres = TrueV) =>
            /\ update.text = <<"!", "s">> => result = TupleV(<<>>, TrueV)
            /\ update.text = <<"#", "s">> => result = TupleV(<<>>, TrueV)
            /\ update.text = <<"s">> => result = NoneV
            /\ update.text = <<"!", "h">> => result = NoneV

\* '#S x x', with no entity, matched a handler for !s and #s with args [x, x]
C7_Witness ==
    /\ pc = "checked"
    /\ handler.kind = "prefix"
    /\ handler.command = PrefixS
    /\ HasEffectiveMessage(update)
    /\ update.text = <<"#", "S", " ", "x", " ", "x">>
    /\ update.ent = NoEnt
    /\ result.tag = "Tuple"
    /\ result.args = <<<<"x">>, <<"x">>>>

\* the pattern matches a prefix of the text: starting at position 0, not
\* necessarily to the end (unless the pattern ends in '$'), and nowhere else
MatchesAtStart(p, q) ==
    /\ Len(q) >= Len(p.lit)
    /\ SubSeq(q, 1, Len(p.lit)) = p.lit
    /\ p.dollar => Len(q) = Len(p.lit)

PatternFo == Pattern(TRUE, <<"f", "o">>, FALSE)

\* C8 as stated: an InlineQueryHandler accepts an update exactly when it
\* carries an inline query with non-empty query text and either no pattern is
\* configured or the pattern matches at position 0; an empty query text is
\* never accepted, with or without a pattern
C8_AsStated ==
    (Checked /\ handler.kind = "inline") =>
        (Accepted(result) <=>
            /\ update.variant = "inline_query"
            /\ update.query # <<>>
            /\ handler.pattern = NoneV \/ MatchesAtStart(handler.pattern, update.query))

\* C8, amended: an InlineQueryHandler accepts an update exactly when it
\* carries an inline query and either no pattern is configured (whatever the
\* query text, the empty one included) or the query text is non-empty and the
\* pattern matches at position 0; with a pattern the result is the match, which
\* starts at 0, and an empty query text is not accepted; with '^fo', 'fob' is
\* accepted and 'bfo' is not
C8_PatternMatch ==
    (Checked /\ handler.kind = "inline") =>
        /\ Accepted(result) <=>
            /\ update.variant = "inline_query"
            /\ \/ handler.pattern = NoneV
               \/ update.query # <<>> /\ MatchesAtStart(handler.pattern, update.query)
        /\ (Accepted(result) /\ handler.pattern # NoneV) =>
              result.tag = "Match" /\ result.start = 0
        /\ (update.variant = "inline_query" /\ handler.pattern = PatternFo) =>
            /\ update.query = <<"f", "o", "b">> => result = MatchV(0, 2)
            /\ update.query = <<"b", "f", "o">> => ~Accepted(result)
            /\ update.query = <<>> => ~Accepted(result)

\* 'fob' was accepted under '^fo', and a handler without a pattern accepted an
\* inline query with empty text
C8_Witness ==
    /\ pc = "checked"
    /\ handler.kind = "inline"
    /\ update.variant = "inline_query"
    /\ \/ handler.pattern = PatternFo /\ update.query = <<"f", "o", "b">> /\ result = MatchV(0, 2)
       \/ handler.pattern = NoneV /\ update.query = <<>> /\ result = TrueV

HasData(u) == u.variant = "callback_query" /\ u.data # NoneV

\* peek of the update's data resolves to the handler's action id
PeekIsAction(h, u, reg) ==
    /\ u.data.s \in DOMAIN reg.actions
    /\ ActionV(reg.actions[u.data.s]) = h.action_id

PeekIsNone(u, reg) == u.data.s \notin DOMAIN reg.actions

\* C9 as stated: for a callback query with data the handler accepts exactly
\* when peek of the data resolves to its action id; when peek returns no action
\* the result is NoMatch (None), neither an error nor Rejected (False); without
\* a callback query or without data the result is NoMatch
C9_AsStated ==
    (Checked /\ handler.kind = "action") =>
        /\ HasData(update) =>
            /\ Accepted(result) <=> PeekIsAction(handler, update, registry)
            /\ PeekIsNone(update, registry) => result = NoneV
        /\ ~HasData(update) => result = NoneV

\* C9, amended: for a callback query with data the handler accepts exactly
\* when peek of the data resolves to its action id; for non-empty data whose
\* peek returns no action, or another action, the result is False (the falsy
\* result C4 calls Rejected), never an error; without a callback query, without
\* data or with empty data the result is NoMatch (None)
C9_ActionMatch ==
    (Checked /\ handler.kind = "action") =>
        /\ HasData(update) =>
            /\ Accepted(result) <=> PeekIsAction(handler, update, registry)
            /\ Accepted(result) => result = TrueV
            /\ (update.data.s # "" /\ ~PeekIsAction(handler, update, registry))
                  => result = FalseV
            /\ update.data.s = "" => result = NoneV
        /\ ~HasData(update) => result = NoneV
        /\ result.tag # "Raise"

\* a token resolving to the handler's action was accepted, and an unknown token
\* gave False
C9_Witness ==
    /\ pc = "checked"
    /\ handler.kind = "action"
    /\ HasData(update)
    /\ \/ PeekIsAction(handler, update, registry) /\ result = TrueV
       \/ update.data = StrV("tok3") /\ result = FalseV

----------------------------------------------------------------------------
(* Properties of the dispatcher *)

\* Matched, as opposed to NoMatch (None), Rejected (False) and an error
IsMatched(r) == r.tag \in {"Tuple", "True", "Match", "Payload"}

ResultOf(i, u) == check_update(handlers[i], u, registry)

\* the first handler in registration order that returns Matched, 0 if none
FirstMatched(u) ==
    IF \E i \in 1..Len(handlers) : IsMatched(ResultOf(i, u))
    THEN CHOOSE i \in 1..Len(handlers) :
             IsMatched(ResultOf(i, u)) /\ \A j \in 1..(i - 1) : ~IsMatched(ResultOf(j, u))
    ELSE 0

\* binding the context of handler i for u raises
BindRaises(i, u) ==
    collect_additional_context(handlers[i], FreshContext, u, registry, ResultOf(i, u)).tag
        = "Raise"

\* process(cur) has returned
Processed == dpc = "idle" /\ cur # NoItem

\* C1 as stated: process(U) invokes the callback of exactly the first handler
\* in registration order whose matches(U) returns Matched, and of no other
\* handler (none if no handler returns Matched)
C1_AsStated ==
    Processed =>
        invoked = IF FirstMatched(cur.u) = 0 THEN <<>> ELSE <<FirstMatched(cur.u)>>

\* C1, amended: process(U) invokes at most one callback, and only that of the
\* first handler in registration order whose matches(U) returns Matched; it
\* does invoke it unless binding the context for that handler raises an error,
\* in which case no callback is invoked for U; handlers before it that returned
\* NoMatch or Rejected are skipped, and no callback is invoked if no handler
\* returns Matched
C1_FirstMatchWins ==
    /\ dpc = "matching" =>
          /\ invoked = <<>>
          /\ \A j \in 1..(idx - 1) : ~IsMatched(ResultOf(j, cur.u))
    /\ dpc \in {"binding", "calling"} =>
          /\ invoked = <<>>
          /\ idx = FirstMatched(cur.u)
          /\ check = ResultOf(idx, cur.u)
    /\ Processed =>
          /\ Len(invoked) <= 1
          /\ invoked # <<>> => invoked = <<FirstMatched(cur.u)>>
          /\ FirstMatched(cur.u) = 0 => invoked = <<>>
          /\ FirstMatched(cur.u) # 0 =>
                (invoked = <<>> <=> BindRaises(FirstMatched(cur.u), cur.u))

\* the second of two handlers had its callback invoked, the first having
\* returned Rejected
C1_Witness ==
    /\ Processed
    /\ invoked = <<2>>
    /\ ResultOf(1, cur.u) = FalseV
    /\ Len(handlers) >= 3
    /\ IsMatched(ResultOf(3, cur.u))

\* the callback invocations and the deliveries of the update numbered k
CallsOf(k) == {n \in 1..Len(callbacks) : callbacks[n].id = k}
DeliveriesOf(k) == {n \in 1..Len(delivered) : delivered[n].id = k}

NumUpdates == Len(delivered) + Len(queue)

\* every update was taken from the queue once and dispatched to its first
\* matching handler
AllDispatched ==
    /\ queue = <<>>
    /\ dpc = "idle"
    /\ \A n \in 1..Len(delivered) :
          /\ Cardinality(DeliveriesOf(delivered[n].id)) = 1
          /\ Cardinality(CallsOf(delivered[n].id)) <= 1
          /\ (FirstMatched(delivered[n].u) # 0
                /\ ~BindRaises(FirstMatched(delivered[n].u), delivered[n].u))
                => \E c \in CallsOf(delivered[n].id) :
                       callbacks[c].h = FirstMatched(delivered[n].u)

\* no update is delivered twice, and the loop is alive
AtMostOnce ==
    /\ running
    /\ \A n, m \in 1..Len(delivered) : delivered[n].id = delivered[m].id => n = m
    /\ \A k \in 1..NumUpdates : Cardinality(CallsOf(k)) <= 1

\* C2: whatever the callbacks do, raising included, the dispatch loop does not
\* stop: every update of the queue is in the end dispatched to its first
\* matching handler, and an update whose callback raised counts as handled: it
\* is never put back and never dispatched a second time
C2_Isolation == [](AtMostOnce) /\ <>[](AllDispatched)

\* the callback for the first update raised and the callback for the second
\* update was invoked after it
C2_Witness ==
    /\ Processed
    /\ Len(callbacks) = 2
    /\ callbacks[1].id = 1 /\ callbacks[1].raised
    /\ callbacks[2].id = 2
    /\ queue = <<>>

CommandLike(i) == handlers[i].kind \in {"command", "prefix"}

\* C5: when a CommandHandler or PrefixHandler handles the update, the bound
\* context has args equal to the matched args; if the filters evaluated to a
\* non-empty mapping, every key of it is on the context with its value; if they
\* evaluated to a truthy non-mapping, args is the only key added.  A handler
\* whose filters evaluated to empty or false is not invoked and the next
\* handler in registration order is tried
C5_Binding ==
    /\ (dpc = "calling" /\ CommandLike(idx)) =>
          /\ dctx.tag = "Ctx"
          /\ dctx.ctx["args"] = check.args
          /\ check.args = Rest(SplitWS(cur.u.text))
          /\ check.fr = FiltersCall(handlers[idx], cur.u)
          /\ check.fr.tag = "Dict" =>
                /\ check.fr.d # {}
                /\ \A item \in check.fr.d :
                      item[1] \in DOMAIN dctx.ctx /\ dctx.ctx[item[1]] = item[2]
          /\ check.fr.tag # "Dict" => DOMAIN dctx.ctx = DOMAIN FreshContext \cup {"args"}
    /\ \A n \in 1..Len(callbacks) :
          CommandLike(callbacks[n].h) =>
              Truthy(FiltersCall(handlers[callbacks[n].h], delivered[callbacks[n].id].u))
    /\ (dpc = "matching" /\ idx > 1 /\ CommandLike(idx - 1)
            /\ ResultOf(idx - 1, cur.u) = FalseV) =>
          /\ invoked = <<>>
          /\ ~FiltersAccept(handlers[idx - 1], cur.u)

\* a handler whose filters gave an empty mapping was passed over, and a
\* context was bound with args and the two keys of a filter's mapping
C5_Witness ==
    \/ /\ dpc = "calling"
       /\ CommandLike(idx)
       /\ DOMAIN dctx.ctx = {"bot", "args", "matches", "lang"}
       /\ dctx.ctx["args"] = <<<<"x">>, <<"x">>>>
    \/ /\ Processed
       /\ invoked = <<2>>
       /\ CommandLike(1)
       /\ HasEffectiveMessage(cur.u)
       /\ FiltersCall(handlers[1], cur.u) = DictV(EmptyDict)

\* the session record bound to a callback update
RecordOf(u) == LookupChatBoundCallback(registry, u.chat, u.data.s)

\* C10: when an InlineActionHandler accepted an update and the lookup of the
\* bound record finds none, an error is reported for the update and its
\* callback is never invoked, so never with an empty or missing view_model; the
\* loop stays alive for the updates after it.  When the record exists,
\* context.view_model is the record's payload before the callback runs
C10_ConsistencyError ==
    /\ running
    /\ (dpc = "calling" /\ handlers[idx].kind = "action") =>
          /\ RecordOf(cur.u) # NoneV
          /\ "view_model" \in DOMAIN dctx.ctx
          /\ dctx.ctx["view_model"] = RecordOf(cur.u).model_data
    /\ \A n \in 1..Len(callbacks) :
          handlers[callbacks[n].h].kind = "action" =>
              /\ "view_model" \in DOMAIN callbacks[n].ctx
              /\ RecordOf(delivered[callbacks[n].id].u) # NoneV
              /\ callbacks[n].ctx["view_model"]
                     = RecordOf(delivered[callbacks[n].id].u).model_data
    /\ (Processed /\ FirstMatched(cur.u) # 0 /\ handlers[FirstMatched(cur.u)].kind = "action"
            /\ RecordOf(cur.u) = NoneV) =>
          /\ invoked = <<>>
          /\ errors # <<>>
          /\ errors[Len(errors)].id = cur.id
          /\ errors[Len(errors)].at = "collect_additional_context"
          /\ queue # <<>> => ENABLED Take

\* the record of the first update was missing and reported, and the second
\* update was then dispatched with its record as view_model
C10_Witness ==
    /\ Processed
    /\ Len(errors) = 1
    /\ errors[1].id = 1
    /\ errors[1].at = "collect_additional_context"
    /\ Len(callbacks) = 1
    /\ callbacks[1].id = 2
    /\ handlers[callbacks[1].h].kind = "action"
    /\ callbacks[1].ctx["view_model"] = <<"vm", 1, "tok1">>

----------------------------------------------------------------------------
(* The default filter *)

ChannelPost(u) == u.variant \in {"channel_post", "edited_channel_post"}
NewOrEdited(u) == u.variant \in {"message", "edited_message"}

\* the caller gave filters and they accept the update
CallerIncludes(h, u) == h.filters /\ Truthy(u.fres)

CommandStyle == Checked /\ handler.kind \in {"command", "prefix"}

\* C11 as stated: a handler constructed without caller filters returns Matched
\* only for message and edited_message updates, and a channel_post or
\* edited_channel_post update carrying a matching command is Matched if and
\* only if the caller's filters include it
C11_AsStated ==
    CommandStyle =>
        /\ (~handler.filters /\ IsMatched(result)) => NewOrEdited(update)
        /\ (Shape(handler, update) /\ ChannelPost(update))
               => (IsMatched(result) <=> CallerIncludes(handler, update))

\* C11: the default filter of CommandHandler and PrefixHandler is 'update is a
\* new or edited message' and the caller's filters only narrow it: without
\* caller filters a matching command is Matched exactly in a message or
\* edited_message update; with caller filters it is Matched exactly in a
\* message or edited_message update the caller's filters accept; a
\* channel_post or edited_channel_post update is never Matched, whatever the
\* caller's filters say, and a matching command in one is Rejected
C11_DefaultFilter ==
    CommandStyle =>
        /\ IsMatched(result) => NewOrEdited(update)
        /\ (Shape(handler, update) /\ ~handler.filters)
               => (IsMatched(result) <=> NewOrEdited(update))
        /\ (Shape(handler, update) /\ handler.filters)
               => (IsMatched(result) <=> (NewOrEdited(update) /\ Truthy(update.fres)))
        /\ (Shape(handler, update) /\ ChannelPost(update)) => result = FalseV

\* a channel post carrying the handler's command, which the caller's filters
\* accept, was rejected
C11_Witness ==
    /\ pc = "checked"
    /\ handler.kind \in {"command", "prefix"}
    /\ HasEffectiveMessage(update)
    /\ update.variant = "channel_post"
    /\ Shape(handler, update)
    /\ handler.filters
    /\ update.fres = TrueV
    /\ result = FalseV

----------------------------------------------------------------------------
(* PollAnswerHandler *)

PollHandlerAt(i) == i \in 1..Len(handlers) /\ handlers[i].kind = "poll_answer"

----------------------------------------------------------------------------
(* Purity of matching *)

InCall(w) == ~Idle(w)

\* the result of the call of w, run alone on the handler as it is
Alone(w) == check_update(handler, workers[w].u, registry)

\* C13: in any interleaving of check_update calls by concurrent dispatch
\* cycles on the same handler with different updates, no call changes the
\* handler's configuration, the update or the session registry, and each call
\* returns the result it would return when run alone
C13_Purity ==
    /\ [][/\ handler' = handler
          /\ registry' = registry
          /\ \A w \in Workers : InCall(w) => workers'[w].u = workers[w].u]_vars
    /\ [](\A w \in Workers : workers[w].f.pc = "return" => workers[w].f.ret = Alone(w))

\* one call has returned a match while another call, on another update, is
\* between its statements
C13_Witness ==
    \E v, w \in Workers :
        /\ v # w
        /\ workers[v].f.pc = "return"
        /\ IsMatched(workers[v].f.ret)
        /\ workers[w].f.pc \in {"l106", "l110", "l111", "l213", "l214", "l79", "l112"}
        /\ workers[w].u # workers[v].u

----------------------------------------------------------------------------
(* Totality of PrefixHandler.check_update *)

\* C14: PrefixHandler.check_update is total on message updates: for every
\* update whose effective message has non-empty text, text made of whitespace
\* only included, it returns NoMatch, Rejected or Matched and raises no error
C14_Total ==
    (Checked /\ handler.kind = "prefix" /\ HasEffectiveMessage(update) /\ update.text # <<>>)
        => (result.tag # "Raise" /\ (result = NoneV \/ result = FalseV \/ IsMatched(result)))

====
